---- MODULE Spec2Model ----
(***************************************************************************)
(* MiGBox SFTP server (MiGBox/sftp/server.py): the three synchronisation   *)
(* requests BLOCKCHK, DELTA and PATCH that SFTPServer._process adds to the *)
(* paramiko SFTP request loop, over a filesystem of directory entries and  *)
(* inodes.  The block-checksum, delta and patch algorithms live in         *)
(* MiGBox.sync.delta and the path resolution and rename in                 *)
(* MiGBox.sftp.server_interface; both are modelled from the design         *)
(* document (sections 4.1 - 4.3 and 7).                                    *)
(***************************************************************************)
EXTENDS Integers, Sequences, FiniteSets, TLC

\* ------------------------------------------------------------------ bounds
MaxLen == 3          \* longest file content of the algebraic specification
MaxBlock == 3        \* largest block size of the algebraic specification
NumConns == 2        \* connections (one worker each)
MaxFrames == 2       \* request frames the transports deliver in one behaviour

\* Block size both peers use in the server specification (design document,
\* section 6: a configuration constant, not negotiated on the wire).
BlockSize == 2

Byte == 0 .. 1

RECURSIVE SeqsUpTo(_)
SeqsUpTo(n) ==
  IF n = 0 THEN {<<>>}
  ELSE LET S == SeqsUpTo(n - 1)
       IN S \cup {Append(s, b) : s \in {x \in S : Len(x) = n - 1}, b \in Byte}

Min(a, b) == IF a < b THEN a ELSE b

\* -------------------------------------------------- 4.1 block signatures
\* Weak checksum: additive, so that it can be rolled in O(1).
RECURSIVE weakChecksum(_)
weakChecksum(blk) ==
  IF blk = <<>> THEN 0 ELSE (Head(blk) + weakChecksum(Tail(blk))) % 65536

\* Strong hash: a collision-free digest of the block (its bytes as base-3
\* digits 1..2, so that blocks of different length differ too).
RECURSIVE strongHash(_)
strongHash(blk) ==
  IF blk = <<>> THEN 0
  ELSE 3 * strongHash(SubSeq(blk, 1, Len(blk) - 1)) + blk[Len(blk)] + 1

\* Block i (0-based) of a content, clipped to the file length.
Block(content, i, B) ==
  SubSeq(content, i * B + 1, Min(i * B + B, Len(content)))

NumBlocks(content, B) == (Len(content) + B - 1) \div B

blockchecksums(content, B) ==
  [k \in 1 .. NumBlocks(content, B) |->
     [index  |-> k - 1,
      weak   |-> weakChecksum(Block(content, k - 1, B)),
      strong |-> strongHash(Block(content, k - 1, B))]]

\* --------------------------------------------------------- 4.2 the delta
Copy(i) == [op |-> "c", blockIndex |-> i, data |-> <<>>]
Literal(d) == [op |-> "l", blockIndex |-> 0, data |-> d]

\* First signature, by ascending block index, whose weak checksum and strong
\* hash both match the window; 0 when none does (k is the position in sigs).
MatchOf(sigs, w, window) ==
  LET cand == {k \in 1 .. Len(sigs) :
                 sigs[k].weak = w /\ sigs[k].strong = strongHash(window)}
  IN IF cand = {} THEN 0 ELSE CHOOSE k \in cand : \A j \in cand : k <= j

FlushLiteral(ops, lit) == IF lit = <<>> THEN ops ELSE Append(ops, Literal(lit))

\* The scan: pos is the 1-based start of the window, w the weak checksum of
\* the window local[pos .. pos+B-1] (kept by rolling), lit the pending literal.
RECURSIVE DeltaScan(_, _, _, _, _, _, _)
DeltaScan(local, sigs, B, pos, w, lit, ops) ==
  IF pos + B - 1 > Len(local)
  THEN \* no full window is left: the rest is literal
       FlushLiteral(ops, lit \o SubSeq(local, pos, Len(local)))
  ELSE LET window == SubSeq(local, pos, pos + B - 1)
           m == MatchOf(sigs, w, window)
       IN IF m # 0
          THEN LET np == pos + B
                   nw == IF np + B - 1 <= Len(local)
                         THEN weakChecksum(SubSeq(local, np, np + B - 1))
                         ELSE 0
               IN DeltaScan(local, sigs, B, np, nw, <<>>,
                            Append(FlushLiteral(ops, lit), Copy(sigs[m].index)))
          ELSE LET nw == IF pos + B <= Len(local)
                         THEN (w + 65536 - local[pos] + local[pos + B]) % 65536
                         ELSE 0
               IN DeltaScan(local, sigs, B, pos + 1, nw,
                            Append(lit, local[pos]), ops)

delta(local, sigs, B) ==
  DeltaScan(local, sigs, B, 1,
            IF B <= Len(local) THEN weakChecksum(SubSeq(local, 1, B)) ELSE 0,
            <<>>, <<>>)

\* --------------------------------------------------------- 4.3 the patch
\* A Copy must name a block of the base file.
ValidOps(base, ops, B) ==
  \A k \in 1 .. Len(ops) :
     ops[k].op = "c" => ops[k].blockIndex < NumBlocks(base, B)

OpBytes(base, o, B) ==
  IF o.op = "c" THEN Block(base, o.blockIndex, B) ELSE o.data

RECURSIVE applyPatch(_, _, _)
applyPatch(base, ops, B) ==
  IF ops = <<>> THEN <<>>
  ELSE OpBytes(base, Head(ops), B) \o applyPatch(base, Tail(ops), B)

\* ------------------------------------------------------ the wire encoding
\* json.dumps / json.loads: the payload string is either the JSON text of a
\* value or some other string, which json.loads rejects.
json_dumps(v) == [json |-> TRUE, val |-> v]
Malformed == [json |-> FALSE, val |-> <<>>]
json_ok(s) == s.json
json_loads(s) == s.val

\* ------------------------------------------------------------- the server
VARIABLES
  bs,       \* block size of the synchronisation algorithm
  dir,      \* directory under the root: location -> inode, 0 when absent
  data,     \* inode -> bytes of the file
  full,     \* inode -> the content the file is meant to hold once written
  inq,      \* connection -> request frames delivered and not yet read
  pc,       \* connection -> position of its request handler
  cur,      \* connection -> request its loop read last (request_number, msg)
  hnd,      \* connection -> inode the handler has open for reading, 0 if none
  tmp,      \* connection -> inode of the handler's temporary file, 0 if none
  todo,     \* connection -> delta operations the patch has still to write
  out,      \* connection -> response packets sent, in order
  err,      \* connection -> error raised by the last call of _process
  passed,   \* connection -> calls passed on to paramiko.SFTPServer._process
  active,   \* connection -> the transport is active
  serving,  \* connection -> its request loop is running
  nread,    \* connection -> number of frames its request loop has read
  frames,   \* number of request frames delivered so far
  conf,     \* arguments of run: hostkey, userkey, rootpath
  files,    \* path of a key file -> its text
  running,         \* run: the flag of the main loop
  server_socket,   \* run: the listening socket, "listening" or "closed"
  input_ready,     \* run: inputs select returned that are still to be served
  returned,        \* run has returned
  client_threads,  \* run: the threads made for the accepted connections
  pending,  \* connections of clients the main loop has not accepted yet
  wk,       \* connection -> position of its worker thread (run_server)
  server,   \* connection -> the Server object of its worker (root, userkey)
  auth,     \* connection -> its last authentication request and the answer
  said      \* lines run has read from the console, in order

\* The state of run, of the workers and of the authentication.
boot == <<conf, files, running, server_socket, input_ready, returned,
          client_threads, pending, wk, server, auth, said>>

vars == <<bs, dir, data, full, inq, pc, cur, hnd, tmp, todo, out, err, passed,
          active, serving, nread, frames, boot>>

Conns == 1 .. NumConns
Locs == {<<"a">>, <<"b">>}
Inodes == 1 .. (2 + 2 * NumConns)

\* Command codes of MiGBox.sftp.common, and one code of the base protocol.
CMD_BLOCKCHK == "CMD_BLOCKCHK"
CMD_DELTA == "CMD_DELTA"
CMD_PATCH == "CMD_PATCH"
CMD_STAT == "CMD_STAT"
CMD_STATUS == "CMD_STATUS"
SFTP_OK == "SFTP_OK"
SFTP_FAILURE == "SFTP_FAILURE"

NoReq == [t |-> "none", id |-> 0, msg |-> [path |-> <<>>, payload |-> Malformed]]

\* -------------------------------------------------------- path resolution
\* Segments are applied left to right; a ".." with nothing left to pop leaves
\* the root.
RECURSIVE Normalize(_, _)
Normalize(path, acc) ==
  IF path = <<>> THEN [ok |-> TRUE, loc |-> acc]
  ELSE IF Head(path) = ".."
       THEN IF acc = <<>> THEN [ok |-> FALSE, loc |-> <<>>]
            ELSE Normalize(Tail(path), SubSeq(acc, 1, Len(acc) - 1))
       ELSE Normalize(Tail(path), Append(acc, Head(path)))

\* SFTPServerInterface._get_path: the location under the root, or a
\* ProtocolError when the path leaves the root.
get_path(path) == Normalize(path, <<>>)

\* ------------------------------------------------------------- inode pool
Referenced(d, h, t) ==
  {d[l] : l \in Locs} \cup {h[c] : c \in Conns} \cup {t[c] : c \in Conns}

FreshInode == CHOOSE i \in Inodes :
                 /\ i \notin Referenced(dir, hnd, tmp)
                 /\ \A j \in Inodes : j \notin Referenced(dir, hnd, tmp) => i <= j

\* Inodes nobody links or holds open are released.
Collect(f, d, h, t) ==
  [i \in Inodes |-> IF i \in Referenced(d, h, t) THEN f[i] ELSE <<>>]

\* ---------------------------------------------------------------- packets
\* DataPacket without the request number in front of the payload.
DataPacket_no_id(r, v) ==
  [type |-> r.t, id |-> 0, status |-> "-", payload |-> json_dumps(v),
   by |-> "_process"]

DataPacket(r, v) ==
  [type |-> r.t, id |-> r.id, status |-> "-", payload |-> json_dumps(v),
   by |-> "_process"]
StatusPacket(id, code, who) ==
  [type |-> CMD_STATUS, id |-> id, status |-> code, payload |-> Malformed,
   by |-> who]

\* _send_packet: the packet leaves unless the transport is gone.
Sent(c, p) == [out EXCEPT ![c] = IF active[c] THEN Append(@, p) ELSE @]

Lookup(loc) == IF loc \in Locs THEN dir[loc] ELSE 0

\* ----------------------------------------------- ends of a handler call
\* _process returned normally.
Returned(c) == err' = [err EXCEPT ![c] = "none"]

\* _process raised: the request loop the class inherits (start_subsystem)
\* catches the error and sends a failure status for the request.
Caught(c, r, kind) ==
  /\ err' = [err EXCEPT ![c] = kind]
  /\ out' = Sent(c, StatusPacket(r.id, SFTP_FAILURE, "start_subsystem"))

\* Done of a handler object that keeps the file it read in an attribute, so
\* that it is still open when the next request comes.
Done_keeps_file(c, d) ==
  LET t == [tmp EXCEPT ![c] = 0]
  IN /\ pc' = [pc EXCEPT ![c] = "idle"]
     /\ todo' = [todo EXCEPT ![c] = <<>>]
     /\ hnd' = hnd
     /\ tmp' = t
     /\ dir' = d
     /\ data' = Collect(data, d, hnd, t)
     /\ full' = Collect(full, d, hnd, t)
     /\ serving' = [serving EXCEPT ![c] = active[c]]

\* The handler is back in the loop, its files closed; d is the directory.
\* With the transport gone the loop reads end of file and ends.
Done(c, d) ==
  LET h == [hnd EXCEPT ![c] = 0]
      t == [tmp EXCEPT ![c] = 0]
  IN /\ pc' = [pc EXCEPT ![c] = "idle"]
     /\ todo' = [todo EXCEPT ![c] = <<>>]
     /\ hnd' = h
     /\ tmp' = t
     /\ dir' = d
     /\ data' = Collect(data, d, h, t)
     /\ full' = Collect(full, d, h, t)
     /\ serving' = [serving EXCEPT ![c] = active[c]]

\* Next_frame for a loop that hands a frame to a new handler invocation
\* without waiting for the running one.
Next_frame_concurrent(c, t) ==
  /\ serving[c]
  /\ active[c]
  /\ inq[c] # <<>>
  /\ Head(inq[c]).t = t

\* The next frame of connection c is of command t and the loop can read it.
Next_frame(c, t) ==
  /\ serving[c]
  /\ active[c]
  /\ pc[c] = "idle"
  /\ inq[c] # <<>>
  /\ Head(inq[c]).t = t

\* ---------------------------------------------------------------- BLOCKCHK
\* A path resolution that clamps at the root: a ".." with nothing to pop is
\* dropped, so every path ends up under the root.
RECURSIVE Clamp(_, _)
Clamp(path, acc) ==
  IF path = <<>> THEN [ok |-> TRUE, loc |-> acc]
  ELSE IF Head(path) = ".."
       THEN Clamp(Tail(path), SubSeq(acc, 1, Len(acc) - 1))
       ELSE Clamp(Tail(path), Append(acc, Head(path)))

\* ProcessBlockchk with the clamping path resolution.
ProcessBlockchk_clamped(c) ==
  /\ Next_frame(c, CMD_BLOCKCHK)
  /\ LET r == Head(inq[c])
         p == Clamp(r.msg.path, <<>>)
     IN /\ inq' = [inq EXCEPT ![c] = Tail(@)]
        /\ nread' = [nread EXCEPT ![c] = @ + 1]
        /\ cur' = [cur EXCEPT ![c] = r]
        /\ IF Lookup(p.loc) = 0
           THEN Caught(c, r, "IOError") /\ UNCHANGED <<pc, hnd>>
           ELSE /\ pc' = [pc EXCEPT ![c] = "read"]
                /\ hnd' = [hnd EXCEPT ![c] = Lookup(p.loc)]
                /\ UNCHANGED <<out, err>>
  /\ UNCHANGED <<boot, bs, dir, data, full, tmp, todo, passed, active, serving, frames>>

\* ProcessBlockchk under a request loop that does not catch what _process
\* raises: the error ends the loop and nothing is sent.
ProcessBlockchk_uncaught(c) ==
  /\ Next_frame(c, CMD_BLOCKCHK)
  /\ LET r == Head(inq[c])
         p == get_path(r.msg.path)
     IN /\ inq' = [inq EXCEPT ![c] = Tail(@)]
        /\ nread' = [nread EXCEPT ![c] = @ + 1]
        /\ cur' = [cur EXCEPT ![c] = r]
        /\ IF ~p.ok \/ Lookup(p.loc) = 0
           THEN /\ err' = [err EXCEPT ![c] = "IOError"]
                /\ serving' = [serving EXCEPT ![c] = FALSE]
                /\ UNCHANGED <<pc, hnd, out>>
           ELSE /\ pc' = [pc EXCEPT ![c] = "read"]
                /\ hnd' = [hnd EXCEPT ![c] = Lookup(p.loc)]
                /\ UNCHANGED <<out, err, serving>>
  /\ UNCHANGED <<boot, bs, dir, data, full, tmp, todo, passed, active, frames>>

\* Lines 125-127: the path is resolved and blockchecksums opens the file.
ProcessBlockchk(c) ==
  /\ Next_frame(c, CMD_BLOCKCHK)
  /\ LET r == Head(inq[c])
         p == get_path(r.msg.path)
     IN /\ inq' = [inq EXCEPT ![c] = Tail(@)]
        /\ nread' = [nread EXCEPT ![c] = @ + 1]
        /\ cur' = [cur EXCEPT ![c] = r]
        /\ IF ~p.ok
           THEN Caught(c, r, "ProtocolError") /\ UNCHANGED <<pc, hnd>>
           ELSE IF Lookup(p.loc) = 0
           THEN Caught(c, r, "IOError") /\ UNCHANGED <<pc, hnd>>
           ELSE /\ pc' = [pc EXCEPT ![c] = "read"]
                /\ hnd' = [hnd EXCEPT ![c] = Lookup(p.loc)]
                /\ UNCHANGED <<out, err>>
  /\ UNCHANGED <<boot, bs, dir, data, full, tmp, todo, passed, active, serving, frames>>

\* FinishBlockchk that goes on after the packet, line 133's return missing,
\* and sends a status as the PATCH branch does.
FinishBlockchk_no_return(c) ==
  /\ pc[c] = "read"
  /\ cur[c].t = CMD_BLOCKCHK
  /\ out' = [out EXCEPT ![c] =
               IF active[c]
               THEN @ \o <<DataPacket(cur[c], blockchecksums(data[hnd[c]], bs)),
                           StatusPacket(cur[c].id, SFTP_OK, "_process")>>
               ELSE @]
  /\ Returned(c)
  /\ Done(c, dir)
  /\ UNCHANGED <<boot, bs, inq, cur, passed, active, nread, frames>>

\* Lines 127-133: the file is read, its signatures are encoded and sent.
FinishBlockchk(c) ==
  /\ pc[c] = "read"
  /\ cur[c].t = CMD_BLOCKCHK
  /\ out' = Sent(c, DataPacket(cur[c], blockchecksums(data[hnd[c]], bs)))
  /\ Returned(c)
  /\ Done(c, dir)
  /\ UNCHANGED <<boot, bs, inq, cur, passed, active, nread, frames>>

\* ------------------------------------------------------------------- DELTA
\* ProcessDelta with a delta that opens the file for update, which makes an
\* empty file where there is none.
ProcessDelta_creating(c) ==
  /\ Next_frame(c, CMD_DELTA)
  /\ LET r == Head(inq[c])
         p == get_path(r.msg.path)
     IN /\ inq' = [inq EXCEPT ![c] = Tail(@)]
        /\ nread' = [nread EXCEPT ![c] = @ + 1]
        /\ cur' = [cur EXCEPT ![c] = r]
        /\ IF ~json_ok(r.msg.payload)
           THEN Caught(c, r, "ProtocolError") /\ UNCHANGED <<pc, hnd, dir>>
           ELSE IF ~p.ok
           THEN Caught(c, r, "ProtocolError") /\ UNCHANGED <<pc, hnd, dir>>
           ELSE IF p.loc \notin Locs
           THEN Caught(c, r, "IOError") /\ UNCHANGED <<pc, hnd, dir>>
           ELSE /\ pc' = [pc EXCEPT ![c] = "read"]
                /\ hnd' = [hnd EXCEPT ![c] =
                             IF dir[p.loc] = 0 THEN FreshInode ELSE dir[p.loc]]
                /\ dir' = [dir EXCEPT ![p.loc] =
                             IF @ = 0 THEN FreshInode ELSE @]
                /\ UNCHANGED <<out, err>>
  /\ UNCHANGED <<boot, bs, data, full, tmp, todo, passed, active, serving, frames>>

\* Lines 134-137: the signatures are decoded, the path is resolved and delta
\* opens the file.
ProcessDelta(c) ==
  /\ Next_frame(c, CMD_DELTA)
  /\ LET r == Head(inq[c])
         p == get_path(r.msg.path)
     IN /\ inq' = [inq EXCEPT ![c] = Tail(@)]
        /\ nread' = [nread EXCEPT ![c] = @ + 1]
        /\ cur' = [cur EXCEPT ![c] = r]
        /\ IF ~json_ok(r.msg.payload)
           THEN Caught(c, r, "ProtocolError") /\ UNCHANGED <<pc, hnd>>
           ELSE IF ~p.ok
           THEN Caught(c, r, "ProtocolError") /\ UNCHANGED <<pc, hnd>>
           ELSE IF Lookup(p.loc) = 0
           THEN Caught(c, r, "IOError") /\ UNCHANGED <<pc, hnd>>
           ELSE /\ pc' = [pc EXCEPT ![c] = "read"]
                /\ hnd' = [hnd EXCEPT ![c] = Lookup(p.loc)]
                /\ UNCHANGED <<out, err>>
  /\ UNCHANGED <<boot, bs, dir, data, full, tmp, todo, passed, active, serving, frames>>

\* FinishDelta with the signatures taken from the file itself, as in the
\* BLOCKCHK branch, instead of the ones the request carries.
FinishDelta_own_signatures(c) ==
  /\ pc[c] = "read"
  /\ cur[c].t = CMD_DELTA
  /\ out' = Sent(c, DataPacket(cur[c],
                   delta(data[hnd[c]], blockchecksums(data[hnd[c]], bs), bs)))
  /\ Returned(c)
  /\ Done(c, dir)
  /\ UNCHANGED <<boot, bs, inq, cur, passed, active, nread, frames>>

\* Lines 137-142: the delta of the file against the signatures is sent.
FinishDelta(c) ==
  /\ pc[c] = "read"
  /\ cur[c].t = CMD_DELTA
  /\ out' = Sent(c, DataPacket(cur[c],
                   delta(data[hnd[c]], json_loads(cur[c].msg.payload), bs)))
  /\ Returned(c)
  /\ Done(c, dir)
  /\ UNCHANGED <<boot, bs, inq, cur, passed, active, nread, frames>>

\* ------------------------------------------------------------------- PATCH
\* patch_error of a patch that takes the block indices on trust.
patch_error_unvalidated(inode, ops) ==
  IF inode = 0 THEN "IOError" ELSE "none"

\* patch, on opening the base file: the error it raises, "none" if none.
patch_error(inode, ops) ==
  IF inode = 0 THEN "IOError"
  ELSE IF ~ValidOps(data[inode], ops, bs) THEN "AlgorithmError"
  ELSE "none"

\* ProcessPatch with a patch that rebuilds the file in place: the file at the
\* path is truncated and written, and no temporary file is made.
ProcessPatch_in_place(c) ==
  /\ Next_frame(c, CMD_PATCH)
  /\ LET r == Head(inq[c])
         p == get_path(r.msg.path)
         ops == json_loads(r.msg.payload)
     IN /\ inq' = [inq EXCEPT ![c] = Tail(@)]
        /\ nread' = [nread EXCEPT ![c] = @ + 1]
        /\ cur' = [cur EXCEPT ![c] = r]
        /\ IF ~json_ok(r.msg.payload)
           THEN /\ Caught(c, r, "ProtocolError")
                /\ UNCHANGED <<pc, hnd, tmp, todo, data, full>>
           ELSE IF ~p.ok
           THEN /\ Caught(c, r, "ProtocolError")
                /\ UNCHANGED <<pc, hnd, tmp, todo, data, full>>
           ELSE IF patch_error(Lookup(p.loc), ops) # "none"
           THEN /\ Caught(c, r, patch_error(Lookup(p.loc), ops))
                /\ UNCHANGED <<pc, hnd, tmp, todo, data, full>>
           ELSE /\ pc' = [pc EXCEPT ![c] = IF ops = <<>> THEN "patched" ELSE "write"]
                /\ hnd' = [hnd EXCEPT ![c] = FreshInode]
                /\ tmp' = [tmp EXCEPT ![c] = Lookup(p.loc)]
                /\ todo' = [todo EXCEPT ![c] = ops]
                /\ data' = [data EXCEPT ![FreshInode] = data[Lookup(p.loc)],
                                        ![Lookup(p.loc)] = <<>>]
                /\ full' = [full EXCEPT ![FreshInode] = data[Lookup(p.loc)],
                                        ![Lookup(p.loc)] =
                                 applyPatch(data[Lookup(p.loc)], ops, bs)]
                /\ UNCHANGED <<out, err>>
  /\ UNCHANGED <<boot, bs, dir, passed, active, serving, frames>>

\* Lines 143-146: the delta is decoded, the path is resolved, and patch opens
\* the base file, validates the delta and creates its temporary file.
ProcessPatch(c) ==
  /\ Next_frame(c, CMD_PATCH)
  /\ LET r == Head(inq[c])
         p == get_path(r.msg.path)
         ops == json_loads(r.msg.payload)
     IN /\ inq' = [inq EXCEPT ![c] = Tail(@)]
        /\ nread' = [nread EXCEPT ![c] = @ + 1]
        /\ cur' = [cur EXCEPT ![c] = r]
        /\ IF ~json_ok(r.msg.payload)
           THEN /\ Caught(c, r, "ProtocolError")
                /\ UNCHANGED <<pc, hnd, tmp, todo, data, full>>
           ELSE IF ~p.ok
           THEN /\ Caught(c, r, "ProtocolError")
                /\ UNCHANGED <<pc, hnd, tmp, todo, data, full>>
           ELSE IF patch_error(Lookup(p.loc), ops) # "none"
           THEN /\ Caught(c, r, patch_error(Lookup(p.loc), ops))
                /\ UNCHANGED <<pc, hnd, tmp, todo, data, full>>
           ELSE /\ pc' = [pc EXCEPT ![c] = IF ops = <<>> THEN "patched" ELSE "write"]
                /\ hnd' = [hnd EXCEPT ![c] = Lookup(p.loc)]
                /\ tmp' = [tmp EXCEPT ![c] = FreshInode]
                /\ todo' = [todo EXCEPT ![c] = ops]
                /\ data' = [data EXCEPT ![FreshInode] = <<>>]
                /\ full' = [full EXCEPT ![FreshInode] =
                                 applyPatch(data[Lookup(p.loc)], ops, bs)]
                /\ UNCHANGED <<out, err>>
  /\ UNCHANGED <<boot, bs, dir, passed, active, serving, frames>>

\* patch writes the bytes of the next operation to its temporary file, or the
\* write fails.
PatchWrite(c) ==
  /\ pc[c] = "write"
  /\ \/ /\ data' = [data EXCEPT ![tmp[c]] =
                         @ \o OpBytes(data[hnd[c]], Head(todo[c]), bs)]
        /\ todo' = [todo EXCEPT ![c] = Tail(@)]
        /\ pc' = [pc EXCEPT ![c] = IF Tail(todo[c]) = <<>> THEN "patched" ELSE "write"]
        /\ UNCHANGED <<dir, full, hnd, tmp, out, err, serving>>
     \/ /\ Caught(c, cur[c], "IOError")
        /\ Done(c, dir)
  /\ UNCHANGED <<boot, bs, inq, cur, passed, active, nread, frames>>

\* SFTPServerInterface.rename of the temporary file onto a location: the
\* directory afterwards.
rename(inode, loc, succeeds) ==
  IF succeeds THEN [dir EXCEPT ![loc] = inode] ELSE dir

\* PatchRename that reports success whatever the rename returned.
PatchRename_always_ok(c) ==
  /\ pc[c] = "patched"
  /\ \E succeeds \in BOOLEAN :
       /\ out' = Sent(c, StatusPacket(cur[c].id, SFTP_OK, "_process"))
       /\ Done(c, rename(tmp[c], get_path(cur[c].msg.path).loc, succeeds))
  /\ Returned(c)
  /\ UNCHANGED <<boot, bs, inq, cur, passed, active, nread, frames>>

\* PatchRename that does not wait for patch to return: the rename may come
\* while the temporary file is still being written.
PatchRename_early(c) ==
  /\ pc[c] \in {"write", "patched"}
  /\ \E succeeds \in BOOLEAN :
       /\ out' = Sent(c, StatusPacket(cur[c].id,
                          IF succeeds THEN SFTP_OK ELSE SFTP_FAILURE, "_process"))
       /\ Done(c, rename(tmp[c], get_path(cur[c].msg.path).loc, succeeds))
  /\ Returned(c)
  /\ UNCHANGED <<boot, bs, inq, cur, passed, active, nread, frames>>

\* Line 147: the temporary file patch returned is renamed onto the path of
\* the request and the outcome of the rename is sent as the status.
PatchRename(c) ==
  /\ pc[c] = "patched"
  /\ \E succeeds \in BOOLEAN :
       /\ out' = Sent(c, StatusPacket(cur[c].id,
                          IF succeeds THEN SFTP_OK ELSE SFTP_FAILURE, "_process"))
       /\ Done(c, rename(tmp[c], get_path(cur[c].msg.path).loc, succeeds))
  /\ Returned(c)
  /\ UNCHANGED <<boot, bs, inq, cur, passed, active, nread, frames>>

\* ------------------------------------------------------------ other codes
Custom == {CMD_BLOCKCHK, CMD_DELTA, CMD_PATCH}

\* ProcessOther of a _process that reads the path off the message before it
\* looks at the command code.
ProcessOther_consumed(c) ==
  /\ serving[c]
  /\ active[c]
  /\ pc[c] = "idle"
  /\ inq[c] # <<>>
  /\ Head(inq[c]).t \notin Custom
  /\ LET r == Head(inq[c])
     IN /\ inq' = [inq EXCEPT ![c] = Tail(@)]
        /\ nread' = [nread EXCEPT ![c] = @ + 1]
        /\ cur' = [cur EXCEPT ![c] = r]
        /\ passed' = [passed EXCEPT ![c] =
                         Append(@, [r EXCEPT !.msg.path = <<>>])]
        /\ out' = Sent(c, [type |-> "reply", id |-> r.id, status |-> "-",
                           payload |-> Malformed, by |-> "paramiko"])
  /\ Returned(c)
  /\ UNCHANGED <<boot, bs, dir, data, full, pc, hnd, tmp, todo, active, serving,
                 frames>>

\* Lines 148-149: the request goes to paramiko.SFTPServer._process, which
\* answers it.
ProcessOther(c) ==
  /\ serving[c]
  /\ active[c]
  /\ pc[c] = "idle"
  /\ inq[c] # <<>>
  /\ Head(inq[c]).t \notin Custom
  /\ LET r == Head(inq[c])
     IN /\ inq' = [inq EXCEPT ![c] = Tail(@)]
        /\ nread' = [nread EXCEPT ![c] = @ + 1]
        /\ cur' = [cur EXCEPT ![c] = r]
        /\ passed' = [passed EXCEPT ![c] = Append(@, r)]
        /\ out' = Sent(c, [type |-> "reply", id |-> r.id, status |-> "-",
                           payload |-> Malformed, by |-> "paramiko"])
  /\ Returned(c)
  /\ UNCHANGED <<boot, bs, dir, data, full, pc, hnd, tmp, todo, active, serving,
                 frames>>

\* ---------------------------------------------------------- authentication
AUTH_SUCCESSFUL == "AUTH_SUCCESSFUL"
AUTH_FAILED == "AUTH_FAILED"

\* Public keys: the key type and the key material.
RSAKey(n) == [type |-> "ssh-rsa", n |-> n]
DSSKey(n) == [type |-> "ssh-dss", n |-> n]
Keys == {RSAKey(1), RSAKey(2), DSSKey(1)}
NoKey == [type |-> "none", n |-> 0]

\* The base64 text of the blob of a key, as it stands in a public key file.
b64encode(k) ==
  IF k = RSAKey(1) THEN "AAAAB3NzaC1yc2EAAAAB"
  ELSE IF k = RSAKey(2) THEN "AAAAB3NzaC1yc2EAAAAC"
  ELSE "AAAAB3NzaC1kc3MAAAAB"

\* A text is a sequence of words and blanks.  text.split(' '): the fields
\* between the blanks, a field being the words it is made of; two blanks in
\* a row have an empty field between them.
RECURSIVE split(_, _)
split(text, sep) ==
  IF text = <<>> THEN << <<>> >>
  ELSE LET rest == split(Tail(text), sep)
       IN IF Head(text) = sep THEN << <<>> >> \o rest
          ELSE << <<Head(text)>> \o Head(rest) >> \o Tail(rest)

\* paramiko.RSAKey(data=base64.decodestring(key_data)): the key of the blob,
\* NoKey when the field is not the base64 text of an RSA key (the call
\* raises); the decoding skips line ends.
RSAKey_of(key_data) ==
  LET text == SelectSeq(key_data, LAMBDA w : w # "\n")
      hit == {k \in Keys : text = <<b64encode(k)>> /\ k.type = "ssh-rsa"}
  IN IF hit = {} THEN NoKey ELSE CHOOSE k \in hit : TRUE

\* check_auth_publickey that takes the first field of the file, the key
\* type, for the key.
check_auth_publickey_first_field(srv, username, key) ==
  LET fields == split(files[srv.userkey], " ")
  IN IF Len(fields) < 2 THEN "raised"
     ELSE IF RSAKey_of(fields[1]) = NoKey THEN "raised"
     ELSE IF key = RSAKey_of(fields[1]) THEN AUTH_SUCCESSFUL
     ELSE AUTH_FAILED

\* Lines 85-98: the file at the user key path is read, its second field is
\* decoded as an RSA key and compared with the key the client offers.  The
\* answer is "raised" when the file has no second field or the field is not
\* a key.
check_auth_publickey(srv, username, key) ==
  LET fields == split(files[srv.userkey], " ")
  IN IF Len(fields) < 2 THEN "raised"
     ELSE IF RSAKey_of(fields[2]) = NoKey THEN "raised"
     ELSE IF key = RSAKey_of(fields[2]) THEN AUTH_SUCCESSFUL
     ELSE AUTH_FAILED

\* get_allowed_auths that offers the password method as well.
get_allowed_auths_with_password(username) == "password,publickey"

\* Lines 100-107.
get_allowed_auths(username) == "publickey"

NoAuth == [method |-> "-", username |-> "-", key |-> NoKey, result |-> "-",
           allowed |-> "-"]

AuthRequest(m, u, k) == [method |-> m, username |-> u, key |-> k]

\* The authentication requests clients make.
AuthRequests ==
  {AuthRequest("publickey", u, k) : u \in {"alice", "bob"}, k \in Keys}
  \cup {AuthRequest(m, "alice", NoKey) : m \in {"none", "password"}}

\* The transport of connection c answers an authentication request of the
\* client: a publickey request by check_auth_publickey, any other method by
\* the AUTH_FAILED paramiko.ServerInterface answers with; a failure names the
\* methods get_allowed_auths allows.  When the check raises the transport
\* ends.
Auth(c, offered) ==
  /\ active[c]
  /\ ~serving[c]
  /\ auth[c].result # AUTH_SUCCESSFUL
  /\ \E a \in offered :
       LET res == IF a.method = "publickey"
                  THEN check_auth_publickey(server[c], a.username, a.key)
                  ELSE AUTH_FAILED
       IN /\ auth' = [auth EXCEPT ![c] =
                        [method |-> a.method, username |-> a.username,
                         key |-> a.key, result |-> res,
                         allowed |-> IF res = AUTH_FAILED
                                     THEN get_allowed_auths(a.username)
                                     ELSE "-"]]
          /\ active' = [active EXCEPT ![c] = res # "raised"]
  /\ UNCHANGED <<bs, dir, data, full, inq, pc, cur, hnd, tmp, todo, out, err,
                 passed, serving, nread, frames, conf, files, running,
                 server_socket, input_ready, returned, client_threads,
                 pending, wk, server, said>>

\* The authenticated client opens a channel and asks for the sftp subsystem:
\* the transport makes the SFTPServer of the connection (line 154) and its
\* request loop starts.
StartSubsystem(c) ==
  /\ active[c]
  /\ ~serving[c]
  /\ auth[c].result = AUTH_SUCCESSFUL
  /\ serving' = [serving EXCEPT ![c] = TRUE]
  /\ UNCHANGED <<boot, bs, dir, data, full, inq, pc, cur, hnd, tmp, todo, out,
                 err, passed, active, nread, frames>>

\* ------------------------------------------------------- the environment
Ids == {1, 2}
Paths == {<<"a">>, <<"b">>, <<"..", "a">>}
InitContents == {<<0, 1, 1>>}
SigPayloads == {Malformed, json_dumps(blockchecksums(<<0, 1>>, BlockSize))}
OpsPayloads ==
  {Malformed} \cup
  {json_dumps(o) : o \in {<<Copy(1), Literal(<<0>>)>>, <<Copy(2)>>,
                          <<Literal(<<1>>), Copy(0)>>}}

Request(t, i, p, w) == [t |-> t, id |-> i, msg |-> [path |-> p, payload |-> w]]

Requests ==
  {Request(CMD_BLOCKCHK, i, p, Malformed) : i \in Ids, p \in Paths}
  \cup {Request(CMD_DELTA, i, p, w) : i \in Ids, p \in Paths, w \in SigPayloads}
  \cup {Request(CMD_PATCH, i, p, w) : i \in Ids, p \in Paths, w \in OpsPayloads}
  \cup {Request(CMD_STAT, i, <<"a">>, Malformed) : i \in Ids}

\* The transport delivers a request frame of a client to its connection.
Deliver(c) ==
  /\ active[c]
  /\ frames < MaxFrames
  /\ \E r \in Requests : inq' = [inq EXCEPT ![c] = Append(@, r)]
  /\ frames' = frames + 1
  /\ UNCHANGED <<boot, bs, dir, data, full, pc, cur, hnd, tmp, todo, out, err,
                 passed, active, serving, nread>>

\* The connection closes: frames not yet read are lost, nothing can be sent
\* any more, and the request loop ends on reading end of file, at once or
\* when the running handler returns.
Close(c) ==
  /\ active[c]
  /\ active' = [active EXCEPT ![c] = FALSE]
  /\ inq' = [inq EXCEPT ![c] = <<>>]
  /\ serving' = [serving EXCEPT ![c] = pc[c] # "idle"]
  /\ UNCHANGED <<boot, bs, dir, data, full, pc, cur, hnd, tmp, todo, out, err,
                 passed, nread, frames>>

\* ------------------------------------------------------- run, run_server
MaxLines == 2        \* console lines run reads in one behaviour

HostKeyPath == "server_rsa_key"
UserKeyPath == "user_rsa_key.pub"
RootPath == "/srv/migbox"

\* A console line is a sequence of words, blanks and the line end.
Whitespace == {" ", "\n"}

\* str.rstrip(): the line without the blanks and line ends at its end.
RECURSIVE rstrip(_)
rstrip(line) ==
  IF line = <<>> THEN <<>>
  ELSE IF line[Len(line)] \in Whitespace
       THEN rstrip(SubSeq(line, 1, Len(line) - 1))
       ELSE line

\* What readline returns: the lines typed on the console.
Lines == {<<"exit", "\n">>, <<"exit", " ", "\n">>, <<" ", "exit", "\n">>,
          <<"license", "\n">>}

\* Lines 206-207: the thread run makes for an accepted connection.
Thread(c) ==
  [target |-> "SFTPServer.run_server", conn |-> c, addr |-> <<"peer", c>>,
   hostkey |-> conf.hostkey, userkey |-> conf.userkey, root |-> conf.rootpath]

NoServer == [root |-> "", userkey |-> ""]

\* A client connects to the listening socket; connections are numbered in
\* the order the clients connect.
Connect(c) ==
  /\ server_socket = "listening"
  /\ c = Len(client_threads) + Len(pending) + 1
  /\ pending' = Append(pending, c)
  /\ UNCHANGED <<bs, dir, data, full, inq, pc, cur, hnd, tmp, todo, out, err,
                 passed, active, serving, nread, frames, conf, files, running,
                 server_socket, input_ready, returned, client_threads, wk,
                 server, auth, said>>

\* RunSelect with the console in front of the listening socket in
\* input_select.
RunSelect_stdin_first ==
  /\ running
  /\ ~returned
  /\ input_ready = <<>>
  /\ \E stdin_ready \in BOOLEAN :
       /\ stdin_ready => Len(said) < MaxLines
       /\ IF pending # <<>> THEN TRUE ELSE stdin_ready
       /\ input_ready' =
            (IF stdin_ready THEN <<"stdin">> ELSE <<>>)
            \o (IF pending # <<>> THEN <<"server_socket">> ELSE <<>>)
  /\ UNCHANGED <<bs, dir, data, full, inq, pc, cur, hnd, tmp, todo, out, err,
                 passed, active, serving, nread, frames, conf, files, running,
                 server_socket, returned, client_threads, pending, wk,
                 server, auth, said>>

\* Lines 201-202: the loop test and select over [server_socket, sys.stdin]:
\* the inputs that are ready, in the order of input_select.
RunSelect ==
  /\ running
  /\ ~returned
  /\ input_ready = <<>>
  /\ \E stdin_ready \in BOOLEAN :
       /\ stdin_ready => Len(said) < MaxLines
       /\ IF pending # <<>> THEN TRUE ELSE stdin_ready
       /\ input_ready' =
            (IF pending # <<>> THEN <<"server_socket">> ELSE <<>>)
            \o (IF stdin_ready THEN <<"stdin">> ELSE <<>>)
  /\ UNCHANGED <<bs, dir, data, full, inq, pc, cur, hnd, tmp, todo, out, err,
                 passed, active, serving, nread, frames, conf, files, running,
                 server_socket, returned, client_threads, pending, wk,
                 server, auth, said>>

\* RunAccept that makes the thread with the key paths in the wrong order.
RunAccept_keys_swapped ==
  /\ input_ready # <<>>
  /\ Head(input_ready) = "server_socket"
  /\ LET c == Head(pending)
     IN /\ pending' = Tail(pending)
        /\ client_threads' =
             Append(client_threads,
                    [Thread(c) EXCEPT !.hostkey = conf.userkey,
                                      !.userkey = conf.hostkey])
        /\ wk' = [wk EXCEPT ![c] = "started"]
  /\ input_ready' = Tail(input_ready)
  /\ UNCHANGED <<bs, dir, data, full, inq, pc, cur, hnd, tmp, todo, out, err,
                 passed, active, serving, nread, frames, conf, files, running,
                 server_socket, returned, server, auth, said>>

\* Lines 204-209: the connection is accepted, a thread is made for it,
\* appended to client_threads and started.
RunAccept ==
  /\ input_ready # <<>>
  /\ Head(input_ready) = "server_socket"
  /\ LET c == Head(pending)
     IN /\ pending' = Tail(pending)
        /\ client_threads' = Append(client_threads, Thread(c))
        /\ wk' = [wk EXCEPT ![c] = "started"]
  /\ input_ready' = Tail(input_ready)
  /\ UNCHANGED <<bs, dir, data, full, inq, pc, cur, hnd, tmp, todo, out, err,
                 passed, active, serving, nread, frames, conf, files, running,
                 server_socket, returned, server, auth, said>>

\* Lines 210-215: a line is read from the console; 'license' prints the
\* licence, 'exit' clears the flag of the loop.
RunStdin ==
  /\ input_ready # <<>>
  /\ Head(input_ready) = "stdin"
  /\ \E in_ \in Lines :
       /\ said' = Append(said, in_)
       /\ running' = IF rstrip(in_) = <<"exit">> THEN FALSE ELSE running
  /\ input_ready' = Tail(input_ready)
  /\ UNCHANGED <<bs, dir, data, full, inq, pc, cur, hnd, tmp, todo, out, err,
                 passed, active, serving, nread, frames, conf, files,
                 server_socket, returned, client_threads, pending, wk,
                 server, auth>>

\* RunShutdown of a run that closes the transports of its threads before it
\* returns.
RunShutdown_closes_workers ==
  /\ ~running
  /\ ~returned
  /\ input_ready = <<>>
  /\ server_socket' = "closed"
  /\ pending' = <<>>
  /\ returned' = TRUE
  /\ active' = [c \in Conns |-> FALSE]
  /\ inq' = [c \in Conns |-> <<>>]
  /\ serving' = [c \in Conns |-> serving[c] /\ pc[c] # "idle"]
  /\ UNCHANGED <<bs, dir, data, full, pc, cur, hnd, tmp, todo, out, err,
                 passed, nread, frames, conf, files, running,
                 input_ready, client_threads, wk, server, auth, said>>

\* Lines 217-218: the loop is over; the listening socket is closed, which
\* drops the connections not accepted, and run returns.
RunShutdown ==
  /\ ~running
  /\ ~returned
  /\ input_ready = <<>>
  /\ server_socket' = "closed"
  /\ pending' = <<>>
  /\ returned' = TRUE
  /\ UNCHANGED <<bs, dir, data, full, inq, pc, cur, hnd, tmp, todo, out, err,
                 passed, active, serving, nread, frames, conf, files, running,
                 input_ready, client_threads, wk, server, auth, said>>

\* The text of a private key file.
PrivateKeyText(k) ==
  <<"-----BEGIN", " ", "RSA", " ", "PRIVATE", " ", "KEY-----", "\n",
    b64encode(k), "\n",
    "-----END", " ", "RSA", " ", "PRIVATE", " ", "KEY-----", "\n">>

\* paramiko.RSAKey.from_private_key_file: the key of the file, NoKey when
\* the file is not the private key file of an RSA key (the call raises).
from_private_key_file(text) ==
  LET hit == {k \in Keys : k.type = "ssh-rsa" /\ text = PrivateKeyText(k)}
  IN IF hit = {} THEN NoKey ELSE CHOOSE k \in hit : TRUE

\* The thread of connection c: its arguments.
ThreadOf(c) ==
  client_threads[CHOOSE k \in 1 .. Len(client_threads) :
                    client_threads[k].conn = c]

\* Lines 152-156: the worker makes the transport, loads the host key, which
\* raises when the file cannot be read as a key, names the handler of the
\* sftp subsystem and starts the transport with a new Server object.
WorkerStart(c) ==
  /\ wk[c] = "started"
  /\ IF from_private_key_file(files[ThreadOf(c).hostkey]) = NoKey
     THEN /\ wk' = [wk EXCEPT ![c] = "raised"]
          /\ UNCHANGED <<server, active>>
     ELSE /\ wk' = [wk EXCEPT ![c] = "polling"]
          /\ server' = [server EXCEPT ![c] =
                          [root |-> ThreadOf(c).root,
                           userkey |-> ThreadOf(c).userkey]]
          /\ active' = [active EXCEPT ![c] = TRUE]
  /\ UNCHANGED <<bs, dir, data, full, inq, pc, cur, hnd, tmp, todo, out, err,
                 passed, serving, nread, frames, conf, files, running,
                 server_socket, input_ready, returned, client_threads,
                 pending, auth, said>>


\* WorkerPoll of a worker that does not wait for the transport to become
\* inactive.
WorkerPoll_not_waiting(c) ==
  /\ wk[c] = "polling"
  /\ wk' = [wk EXCEPT ![c] = "closing"]
  /\ UNCHANGED <<bs, dir, data, full, inq, pc, cur, hnd, tmp, todo, out, err,
                 passed, active, serving, nread, frames, conf, files, running,
                 server_socket, input_ready, returned, client_threads,
                 pending, server, auth, said>>

\* Lines 158-159: the worker sleeps while the transport is active and leaves
\* the loop when it finds it inactive.
WorkerPoll(c) ==
  /\ wk[c] = "polling"
  /\ ~active[c]
  /\ wk' = [wk EXCEPT ![c] = "closing"]
  /\ UNCHANGED <<bs, dir, data, full, inq, pc, cur, hnd, tmp, todo, out, err,
                 passed, active, serving, nread, frames, conf, files, running,
                 server_socket, input_ready, returned, client_threads,
                 pending, server, auth, said>>

\* Line 161: transport.close(), and the worker ends.  Closing an active
\* transport ends the connection as Close does.
WorkerClose(c) ==
  /\ wk[c] = "closing"
  /\ wk' = [wk EXCEPT ![c] = "done"]
  /\ active' = [active EXCEPT ![c] = FALSE]
  /\ inq' = [inq EXCEPT ![c] = <<>>]
  /\ serving' = IF active[c] THEN [serving EXCEPT ![c] = pc[c] # "idle"]
                ELSE serving
  /\ UNCHANGED <<bs, dir, data, full, pc, cur, hnd, tmp, todo, out, err,
                 passed, nread, frames, conf, files, running, server_socket,
                 input_ready, returned, client_threads, pending, server,
                 auth, said>>

\* The requests and authentication requests of the clients of a session.
SessionRequests ==
  {Request(CMD_BLOCKCHK, 1, <<"a">>, Malformed),
   Request(CMD_DELTA, 1, <<"a">>,
           json_dumps(blockchecksums(<<0, 1>>, BlockSize))),
   Request(CMD_PATCH, 1, <<"a">>, json_dumps(<<Copy(1), Literal(<<0>>)>>)),
   Request(CMD_STAT, 1, <<"a">>, Malformed)}

SessionAuthRequests == {AuthRequest("publickey", "alice", RSAKey(1))}

\* The transport delivers a request frame to the request loop of the sftp
\* subsystem of connection c.
DeliverSession(c) ==
  /\ active[c]
  /\ serving[c]
  /\ frames < MaxFrames
  /\ \E r \in SessionRequests : inq' = [inq EXCEPT ![c] = Append(@, r)]
  /\ frames' = frames + 1
  /\ UNCHANGED <<boot, bs, dir, data, full, pc, cur, hnd, tmp, todo, out, err,
                 passed, active, serving, nread>>

\* The public key file of the user, as documented on line 93.
PublicKeyText(k) ==
  <<"ssh-rsa", " ", b64encode(k), " ", "user@somemachine", "\n">>

\* The key files of a server set up as documented.
KeyFiles ==
  [f \in {HostKeyPath, UserKeyPath} |->
     IF f = HostKeyPath THEN PrivateKeyText(RSAKey(2))
     ELSE PublicKeyText(RSAKey(1))]

Conf == [hostkey |-> HostKeyPath, userkey |-> UserKeyPath, rootpath |-> RootPath]

\* run is in its loop (lines 189-200) and no client has connected.
InitRun ==
  /\ conf = Conf
  /\ running = TRUE
  /\ server_socket = "listening"
  /\ input_ready = <<>>
  /\ returned = FALSE
  /\ client_threads = <<>>
  /\ pending = <<>>
  /\ wk = [c \in Conns |-> "none"]
  /\ server = [c \in Conns |-> NoServer]
  /\ auth = [c \in Conns |-> NoAuth]
  /\ said = <<>>

\* Every connection is accepted and its worker has started the transport.
InitAccepted ==
  /\ conf = Conf
  /\ running = TRUE
  /\ server_socket = "listening"
  /\ input_ready = <<>>
  /\ returned = FALSE
  /\ client_threads = [c \in Conns |-> Thread(c)]
  /\ pending = <<>>
  /\ wk = [c \in Conns |-> "polling"]
  /\ server = [c \in Conns |-> [root |-> RootPath, userkey |-> UserKeyPath]]
  /\ said = <<>>

\* Every client has authenticated with the authorized key.
InitServed ==
  /\ InitAccepted
  /\ files = KeyFiles
  /\ auth = [c \in Conns |->
               [method |-> "publickey", username |-> "alice",
                key |-> RSAKey(1), result |-> AUTH_SUCCESSFUL,
                allowed |-> "-"]]

InitConns ==
  /\ inq = [c \in Conns |-> <<>>]
  /\ pc = [c \in Conns |-> "idle"]
  /\ cur = [c \in Conns |-> NoReq]
  /\ hnd = [c \in Conns |-> 0]
  /\ tmp = [c \in Conns |-> 0]
  /\ todo = [c \in Conns |-> <<>>]
  /\ out = [c \in Conns |-> <<>>]
  /\ err = [c \in Conns |-> "none"]
  /\ passed = [c \in Conns |-> <<>>]
  /\ active = [c \in Conns |-> TRUE]
  /\ serving = [c \in Conns |-> TRUE]
  /\ nread = [c \in Conns |-> 0]
  /\ frames = 0
  /\ InitServed

\* The root holds the file a; b does not exist.
Init ==
  /\ bs = BlockSize
  /\ dir = [l \in Locs |-> IF l = <<"a">> THEN 1 ELSE 0]
  /\ \E x \in InitContents :
       /\ data = [i \in Inodes |-> IF i = 1 THEN x ELSE <<>>]
       /\ full = [i \in Inodes |-> IF i = 1 THEN x ELSE <<>>]
  /\ InitConns

Handle(c) ==
  \/ ProcessBlockchk(c)
  \/ FinishBlockchk(c)
  \/ ProcessDelta(c)
  \/ FinishDelta(c)
  \/ ProcessPatch(c)
  \/ PatchWrite(c)
  \/ PatchRename(c)
  \/ ProcessOther(c)

Next == \E c \in Conns : Deliver(c) \/ Close(c) \/ Handle(c)

Spec == Init /\ [][Next]_vars

\* ------------------------------------------- one synchronisation of a file
\* A client brings the server's file a to the content of the server's file b
\* with the three requests, over connection 1: the signatures of a, the delta
\* of b against them, the patch of a with that delta.
SyncSend(k, r) ==
  /\ frames = k
  /\ Len(out[1]) = k
  /\ inq' = [inq EXCEPT ![1] = Append(@, r)]
  /\ frames' = k + 1
  /\ UNCHANGED <<boot, bs, dir, data, full, pc, cur, hnd, tmp, todo, out, err,
                 passed, active, serving, nread>>

SyncBlockchk == SyncSend(0, Request(CMD_BLOCKCHK, 1, <<"a">>, Malformed))

SyncDelta ==
  /\ Len(out[1]) = 1
  /\ out[1][1].type = CMD_BLOCKCHK
  /\ SyncSend(1, Request(CMD_DELTA, 2, <<"b">>, out[1][1].payload))

SyncPatch ==
  /\ Len(out[1]) = 2
  /\ out[1][2].type = CMD_DELTA
  /\ SyncSend(2, Request(CMD_PATCH, 3, <<"a">>, out[1][2].payload))

\* a holds any content C1, b any content C2, for any block size.
InitSync ==
  /\ bs \in 1 .. MaxBlock
  /\ dir = [l \in Locs |-> IF l = <<"a">> THEN 1 ELSE 2]
  /\ \E x \in SeqsUpTo(MaxLen), y \in SeqsUpTo(MaxLen) :
       /\ data = [i \in Inodes |-> IF i = 1 THEN x ELSE IF i = 2 THEN y ELSE <<>>]
       /\ full = [i \in Inodes |-> IF i = 1 THEN x ELSE IF i = 2 THEN y ELSE <<>>]
  /\ InitConns

NextSync ==
  \/ SyncBlockchk
  \/ SyncDelta
  \/ SyncPatch
  \/ ProcessBlockchk(1)
  \/ FinishBlockchk(1)
  \/ ProcessDelta(1)
  \/ FinishDelta(1)
  \/ ProcessPatch(1)
  \/ PatchWrite(1)
  \/ PatchRename(1)

SpecSync == InitSync /\ [][NextSync]_vars

\* ----------------------------------------------- the server as run runs it
\* No connection yet: no transport, no request loop, no request read.
InitIdle ==
  /\ bs = BlockSize
  /\ dir = [l \in Locs |-> IF l = <<"a">> THEN 1 ELSE 0]
  /\ \E x \in InitContents :
       /\ data = [i \in Inodes |-> IF i = 1 THEN x ELSE <<>>]
       /\ full = [i \in Inodes |-> IF i = 1 THEN x ELSE <<>>]
  /\ inq = [c \in Conns |-> <<>>]
  /\ pc = [c \in Conns |-> "idle"]
  /\ cur = [c \in Conns |-> NoReq]
  /\ hnd = [c \in Conns |-> 0]
  /\ tmp = [c \in Conns |-> 0]
  /\ todo = [c \in Conns |-> <<>>]
  /\ out = [c \in Conns |-> <<>>]
  /\ err = [c \in Conns |-> "none"]
  /\ passed = [c \in Conns |-> <<>>]
  /\ serving = [c \in Conns |-> FALSE]
  /\ nread = [c \in Conns |-> 0]
  /\ frames = 0

InitServer ==
  /\ InitIdle
  /\ InitRun
  /\ files = KeyFiles
  /\ active = [c \in Conns |-> FALSE]

NextServer ==
  \/ RunSelect
  \/ RunAccept
  \/ RunStdin
  \/ RunShutdown
  \/ \E c \in Conns :
       \/ Connect(c)
       \/ WorkerStart(c)
       \/ Auth(c, SessionAuthRequests)
       \/ StartSubsystem(c)
       \/ DeliverSession(c)
       \/ Handle(c)
       \/ Close(c)
       \/ WorkerPoll(c)
       \/ WorkerClose(c)

SpecServer == InitServer /\ [][NextServer]_vars

\* The threads get to run: a worker that can leave its loop or close does,
\* and run, its loop over, goes on to close the socket and return.
FairServer ==
  /\ WF_vars(RunShutdown)
  /\ \A c \in Conns : WF_vars(WorkerPoll(c)) /\ WF_vars(WorkerClose(c))

SpecServerFair == InitServer /\ [][NextServer]_vars /\ FairServer

\* ------------------------------------------------- authentication, alone
\* The texts the file at the user key path may hold: a key with and without
\* a comment, and texts that are not of the documented form.
UserKeyTexts ==
  {PublicKeyText(RSAKey(1)),
   <<"ssh-rsa", " ", b64encode(RSAKey(2)), "\n">>,
   <<b64encode(RSAKey(1))>>,
   <<"ssh-rsa", " ", " ", b64encode(RSAKey(1)), "\n">>,
   <<"ssh-dss", " ", b64encode(DSSKey(1)), " ", "user@somemachine", "\n">>}

InitAuth ==
  /\ InitIdle
  /\ InitAccepted
  /\ \E t \in UserKeyTexts :
       files = [KeyFiles EXCEPT ![UserKeyPath] = t]
  /\ auth = [c \in Conns |-> NoAuth]
  /\ active = [c \in Conns |-> TRUE]

NextAuth ==
  \E c \in Conns : Auth(c, AuthRequests) \/ StartSubsystem(c) \/ Close(c)

SpecAuth == InitAuth /\ [][NextAuth]_vars

ContentAt(loc) == data[dir[loc]]

\* C1: once the PATCH of the synchronisation (signatures of a by BLOCKCHK,
\* delta of b against them by DELTA, applied to a by PATCH) is answered with
\* success, a holds exactly the content of b; and no step of it is refused as
\* malformed or invalid.
C1_SyncReconstructsTarget ==
  /\ err[1] \in {"none", "IOError"}
  /\ (Len(out[1]) = 3 /\ out[1][3].status = SFTP_OK)
       => ContentAt(<<"a">>) = ContentAt(<<"b">>)

\* C1 happens: the three requests were answered, the PATCH with success, and
\* the delta that was applied both copied a block of a and carried literal
\* bytes.
C1_Witness ==
  /\ Len(out[1]) = 3
  /\ out[1][3].status = SFTP_OK
  /\ \E k \in 1 .. Len(out[1][2].payload.val) :
        out[1][2].payload.val[k].op = "c"
  /\ \E k \in 1 .. Len(out[1][2].payload.val) :
        out[1][2].payload.val[k].op = "l"

\* What the paths under the root show: <<>> where there is no file, else the
\* content of the file.
Visible == [l \in Locs |-> IF dir[l] = 0 THEN <<>> ELSE <<data[dir[l]]>>]

Target(c) == get_path(cur[c].msg.path).loc

\* The step is the rename of connection c's PATCH: patch has returned, the
\* temporary file holds the whole reconstruction, and it is what the target
\* path shows afterwards.
RenameStep(c) ==
  /\ pc[c] = "patched"
  /\ pc'[c] = "idle"
  /\ todo[c] = <<>>
  /\ data[tmp[c]] = applyPatch(data[hnd[c]], json_loads(cur[c].msg.payload), bs)
  /\ Visible' = [Visible EXCEPT ![Target(c)] = <<data[tmp[c]]>>]

\* The step closes connection c, or is one in which its PATCH fails before
\* the rename (on opening the base file or on a write).
ClosesOrFails(c) ==
  \/ active[c] /\ ~active'[c]
  \/ pc[c] = "write" /\ pc'[c] = "idle"
  \/ Next_frame(c, CMD_PATCH) /\ nread'[c] # nread[c] /\ pc'[c] = "idle"

Readable ==
  ({dir[l] : l \in Locs} \cup {hnd[c] : c \in Conns}) \ {0}

\* C3: in every interleaving of the connections' handlers, each file a path
\* leads to, and each file a BLOCKCHK, DELTA or PATCH has opened through a
\* path and is reading, holds a complete content: the one it had at the start
\* or the whole reconstruction of one PATCH.
C3_NoPartialFileByPath == \A i \in Readable : data[i] = full[i]

\* C3 happens: a BLOCKCHK or DELTA is reading a while a PATCH of another
\* connection on a has written part, and not all, of its reconstruction.
C3_Witness ==
  \E c1 \in Conns, c2 \in Conns :
    /\ c1 # c2
    /\ pc[c1] = "read"
    /\ Target(c1) = <<"a">>
    /\ pc[c2] = "write"
    /\ Target(c2) = <<"a">>
    /\ data[tmp[c2]] # <<>>
    /\ data[tmp[c2]] # full[tmp[c2]]

\* The request loop of connection c reads its next frame in this step.
Reads(c) == nread'[c] = nread[c] + 1

\* Handling request r raises on its first step: its payload is no JSON text,
\* its path leaves the root, there is no file at the path, or (PATCH) its
\* delta copies a block the base file does not have.
Erroneous(r) ==
  \/ r.t \in {CMD_DELTA, CMD_PATCH} /\ ~json_ok(r.msg.payload)
  \/ ~get_path(r.msg.path).ok
  \/ Lookup(get_path(r.msg.path).loc) = 0
  \/ /\ r.t = CMD_PATCH
     /\ ~ValidOps(data[Lookup(get_path(r.msg.path).loc)],
                  json_loads(r.msg.payload), bs)

\* The packets of connection c after the step are those before it and one
\* status packet with the code and the request id given.
SendsStatus(c, id, code) ==
  /\ Len(out'[c]) = Len(out[c]) + 1
  /\ SubSeq(out'[c], 1, Len(out[c])) = out[c]
  /\ out'[c][Len(out'[c])].type = CMD_STATUS
  /\ out'[c][Len(out'[c])].status = code
  /\ out'[c][Len(out'[c])].id = id

\* C4: a step in which the handling of a BLOCKCHK, DELTA or PATCH request
\* raises (on reading the request, or on a write of the patch) is answered
\* with one failure status for that request while the transport is there,
\* and leaves the transport active and the request loop running and ready for
\* the next frame.
C4_ErrorsAnsweredLoopGoesOn ==
  [][ \A c \in Conns :
        LET r == IF pc[c] = "idle" THEN Head(inq[c]) ELSE cur[c]
        IN ( \/ Reads(c) /\ r.t \in Custom /\ Erroneous(r)
             \/ pc[c] = "write" /\ pc'[c] = "idle" )
           => /\ IF active[c] THEN SendsStatus(c, r.id, SFTP_FAILURE)
                 ELSE out'[c] = out[c]
              /\ active'[c] = active[c]
              /\ serving'[c] = active[c]
              /\ pc'[c] = "idle" ]_vars

\* C4 happens: a connection answered a request with a failure status after
\* an error, and then handled a later request to its normal response.
C4_Witness ==
  \E c \in Conns :
    /\ Len(out[c]) = 2
    /\ out[c][1].status = SFTP_FAILURE
    /\ out[c][1].by = "start_subsystem"
    /\ out[c][2].by = "_process"
    /\ out[c][2].status # SFTP_FAILURE
    /\ active[c]
    /\ serving[c]

\* The path leaves the root: at some segment it has gone up more often than
\* down.
LeavesRoot(path) ==
  \E k \in 1 .. Len(path) :
     Cardinality({j \in 1 .. k : path[j] = ".."})
       > Cardinality({j \in 1 .. k : path[j] # ".."})

\* C5: the step that reads a BLOCKCHK, DELTA or PATCH request whose path
\* leaves the root answers it with a failure status, the error being a
\* ProtocolError, opens no file, creates none, and leaves directory and files
\* as they were: the request is over with that step.
C5_EscapingPathRejected ==
  [][ \A c \in Conns :
        (Reads(c) /\ Head(inq[c]).t \in Custom /\ LeavesRoot(Head(inq[c]).msg.path))
        => /\ SendsStatus(c, Head(inq[c]).id, SFTP_FAILURE)
           /\ err'[c] = "ProtocolError"
           /\ pc'[c] = "idle"
           /\ hnd'[c] = 0
           /\ tmp'[c] = 0
           /\ dir' = dir
           /\ data' = data ]_vars

\* C5 happens: a PATCH with a well-formed delta and a path leaving the root
\* has been refused, and the file the clamped path would name is untouched.
C5_Witness ==
  \E c \in Conns :
    /\ pc[c] = "idle"
    /\ nread[c] > 0
    /\ cur[c].t = CMD_PATCH
    /\ json_ok(cur[c].msg.payload)
    /\ LeavesRoot(cur[c].msg.path)
    /\ err[c] = "ProtocolError"
    /\ out[c] # <<>>
    /\ out[c][Len(out[c])].status = SFTP_FAILURE
    /\ ContentAt(<<"a">>) \in InitContents

\* The request connection c is handling in this step: the one its loop reads
\* in the step, else the one it read last.
Handled(c) == IF Reads(c) THEN Head(inq[c]) ELSE cur[c]

\* C6: every packet sent in the handling of a BLOCKCHK, DELTA or PATCH
\* request carries the request id of that request, and packets are sent one
\* at a time.
C6_ResponseEchoesRequestId ==
  [][ \A c \in Conns :
        (out'[c] # out[c] /\ Handled(c).t \in Custom)
        => /\ Len(out'[c]) = Len(out[c]) + 1
           /\ SubSeq(out'[c], 1, Len(out[c])) = out[c]
           /\ out'[c][Len(out'[c])].id = Handled(c).id ]_vars

\* C6 happens: a connection answered two requests of different ids, the
\* larger id first, one with a payload and one with a status.
C6_Witness ==
  \E c \in Conns :
    /\ Len(out[c]) = 2
    /\ out[c][1].id = 2
    /\ out[c][2].id = 1
    /\ out[c][1].type = CMD_BLOCKCHK
    /\ out[c][2].type = CMD_STATUS
    /\ out[c][2].by = "_process"

\* The step ends the handling of a PATCH request by connection c.
PatchEnds(c) ==
  /\ Handled(c).t = CMD_PATCH
  /\ pc'[c] = "idle"
  /\ Reads(c) \/ pc[c] \in {"write", "patched"}

\* The step renames the temporary file of connection c onto the path of its
\* request.
Renames(c) ==
  /\ tmp[c] # 0
  /\ dir'[Target(c)] = tmp[c]

\* C7: the status that answers a PATCH request is success exactly when the
\* step renamed the temporary file onto the path of the request, and then the
\* path shows the reconstruction (the delta applied to the base file); else it
\* is a failure and the directory is as before.
C7_PatchStatusIsRenameOutcome ==
  [][ \A c \in Conns :
        (PatchEnds(c) /\ active[c])
        => LET st == out'[c][Len(out'[c])].status
           IN /\ Len(out'[c]) = Len(out[c]) + 1
              /\ st \in {SFTP_OK, SFTP_FAILURE}
              /\ (st = SFTP_OK) <=> Renames(c)
              /\ (st = SFTP_OK) =>
                   Visible'[Target(c)] =
                     <<applyPatch(data[hnd[c]], json_loads(cur[c].msg.payload), bs)>>
              /\ (st = SFTP_FAILURE) => dir' = dir ]_vars

\* C7 happens: a PATCH was answered with success and its path shows a content
\* the file did not have at the start.
C7_Witness ==
  \E c \in Conns :
    /\ pc[c] = "idle"
    /\ cur[c].t = CMD_PATCH
    /\ out[c] # <<>>
    /\ out[c][Len(out[c])].status = SFTP_OK
    /\ out[c][Len(out[c])].by = "_process"
    /\ ContentAt(<<"a">>) \notin InitContents

\* C8: a request of another command code goes to the base handler as it came
\* (command code, request id, message), and the dispatcher sends no packet of
\* its own for it; a request of one of the three codes never goes to the base
\* handler.
C8_OtherCodesDelegated ==
  [][ \A c \in Conns :
        /\ (Reads(c) /\ Head(inq[c]).t \notin Custom)
           => /\ passed'[c] = Append(passed[c], Head(inq[c]))
              /\ \A k \in (Len(out[c]) + 1) .. Len(out'[c]) :
                    out'[c][k].by = "paramiko"
        /\ ~(Reads(c) /\ Head(inq[c]).t \notin Custom)
           => passed'[c] = passed[c] ]_vars

\* C8 happens: a connection handled a custom request itself and passed a
\* request of another code on.
C8_Witness ==
  \E c \in Conns :
    /\ nread[c] = 2
    /\ Len(passed[c]) = 1
    /\ passed[c][1].t = CMD_STAT
    /\ Len(out[c]) = 2
    /\ \E k \in 1 .. 2 : out[c][k].by = "_process"

\* C9: the loop of a connection reads a frame only when the handler is idle
\* and every frame read before has been answered, and it reads the frame that
\* was delivered first; so the responses leave in the order of the requests.
C9_OneAtATimeInOrder ==
  [][ \A c \in Conns :
        /\ Reads(c) => /\ pc[c] = "idle"
                       /\ Len(out[c]) = nread[c]
                       /\ cur'[c] = Head(inq[c])
                       /\ inq'[c] = Tail(inq[c])
        /\ (out'[c] # out[c]) => /\ Len(out'[c]) = Len(out[c]) + 1
                                 /\ Len(out'[c]) = nread'[c]
                                 /\ pc'[c] = "idle" ]_vars

\* C9 happens: a second frame waits in the queue while the PATCH read before
\* it is still writing.
C9_Witness ==
  \E c \in Conns :
    /\ pc[c] = "write"
    /\ inq[c] # <<>>
    /\ nread[c] = 1
    /\ out[c] = <<>>

\* C10: the step that reads a PATCH request whose base file is missing, or
\* whose delta copies a block index outside the base file, answers with a
\* failure status and ends the request: no temporary file, no rename, every
\* path as before.
C10_InvalidPatchRefused ==
  [][ \A c \in Conns :
        LET r == Head(inq[c])
            loc == get_path(r.msg.path).loc
        IN ( /\ Reads(c)
             /\ r.t = CMD_PATCH
             /\ json_ok(r.msg.payload)
             /\ ~LeavesRoot(r.msg.path)
             /\ \/ Lookup(loc) = 0
                \/ \E k \in 1 .. Len(json_loads(r.msg.payload)) :
                      /\ json_loads(r.msg.payload)[k].op = "c"
                      /\ json_loads(r.msg.payload)[k].blockIndex
                           >= NumBlocks(data[Lookup(loc)], bs) )
           => /\ SendsStatus(c, r.id, SFTP_FAILURE)
              /\ err'[c] \in {"IOError", "AlgorithmError"}
              /\ pc'[c] = "idle"
              /\ tmp'[c] = 0
              /\ dir' = dir
              /\ Visible' = Visible ]_vars

\* C10 happens: a PATCH whose delta copies a block the base file does not
\* have has been refused and the file is as it was.
C10_Witness ==
  \E c \in Conns :
    /\ pc[c] = "idle"
    /\ cur[c].t = CMD_PATCH
    /\ err[c] = "AlgorithmError"
    /\ out[c] # <<>>
    /\ out[c][Len(out[c])].status = SFTP_FAILURE
    /\ ContentAt(<<"a">>) \in InitContents

\* The delta the DELTA request of the synchronisation was answered with.
SyncDeltaOps == json_loads(out[1][2].payload)

\* C11: when the file the delta is taken of (b) is the file the signatures
\* were taken of (the two hold the same content C), the delta the DELTA
\* request is answered with has only Copy operations, no Literal, and applied
\* to C it yields C.
C11_SelfDeltaAllCopy ==
  ( /\ Len(out[1]) >= 2
    /\ out[1][1].type = CMD_BLOCKCHK
    /\ out[1][2].type = CMD_DELTA
    /\ out[1][1].payload = json_dumps(blockchecksums(ContentAt(<<"b">>), bs)) )
  => /\ \A k \in 1 .. Len(SyncDeltaOps) : SyncDeltaOps[k].op = "c"
     /\ applyPatch(ContentAt(<<"b">>), SyncDeltaOps, bs) = ContentAt(<<"b">>)

\* The key a public key file of the documented form "ssh-rsa AAA... comment"
\* authorizes; NoKey for a file of another form.
AuthorizedKey(text) ==
  LET hit == {k \in Keys :
                /\ k.type = "ssh-rsa"
                /\ Len(text) >= 3
                /\ SubSeq(text, 1, 3) = <<"ssh-rsa", " ", b64encode(k)>>
                /\ IF Len(text) = 3 THEN TRUE ELSE text[4] \in Whitespace}
  IN IF hit = {} THEN NoKey ELSE CHOOSE k \in hit : TRUE

\* C12: an authentication request is answered with success exactly when it
\* is a publickey request whose key is the key the user key file authorizes,
\* whatever the user name; with a key authorized, every other request is
\* answered with a failure, and a failure names publickey as the one method
\* allowed; the sftp subsystem runs only for an authenticated client.
C12_OnlyAuthorizedKeySucceeds ==
  \A c \in Conns :
    LET K == AuthorizedKey(files[conf.userkey])
        a == auth[c]
    IN /\ a # NoAuth =>
            /\ (a.result = AUTH_SUCCESSFUL)
                 <=> (a.method = "publickey" /\ K # NoKey /\ a.key = K)
            /\ (K # NoKey /\ ~(a.method = "publickey" /\ a.key = K))
                 => a.result = AUTH_FAILED
            /\ (a.result = AUTH_FAILED) => a.allowed = "publickey"
       /\ serving[c] => a.result = AUTH_SUCCESSFUL

\* C12 happens: one client offered the authorized key and is served, another
\* offered a different RSA key under the same user name and was refused.
C12_Witness ==
  /\ auth[1].result = AUTH_SUCCESSFUL
  /\ auth[1].key = AuthorizedKey(files[conf.userkey])
  /\ serving[1]
  /\ auth[2].result = AUTH_FAILED
  /\ auth[2].method = "publickey"
  /\ auth[2].key.type = "ssh-rsa"
  /\ auth[2].username = auth[1].username

\* A line that reads 'exit', its line end and blanks at the end aside, has
\* been read from the console.
ExitSaid == \E k \in 1 .. Len(said) : rstrip(said[k]) = <<"exit">>

\* The step reads a line from the console; the step accepts a connection.
ReadsLine == Len(said') = Len(said) + 1
Accepts == Len(client_threads') = Len(client_threads) + 1

\* C13: once 'exit' has been read the loop flag is down, no connection is
\* accepted and no line is read any more, and run goes on to close the
\* listening socket and return; the socket is closed only then.  Reading a
\* line that is not 'exit', 'license' included, leaves the loop running and
\* the socket open, and the loop accepts whenever select named the socket.
C13_ExitStopsMainLoop ==
  /\ [][ /\ ExitSaid => (~running /\ ~Accepts /\ ~ReadsLine)
         /\ ExitSaid' => ~running'
         /\ (server_socket' = "closed" \/ returned')
              => (ExitSaid /\ server_socket' = "closed" /\ returned')
         /\ (ReadsLine /\ ~ExitSaid')
              => (running' /\ server_socket' = "listening" /\ ~returned')
         /\ ( /\ input_ready # <<>>
              /\ Head(input_ready) = "server_socket"
              /\ input_ready' # input_ready )
              => Accepts ]_vars
  /\ ExitSaid ~> (server_socket = "closed" /\ returned)

\* C13 happens: 'license' was read, then a connection was waiting and was
\* accepted, then 'exit' followed by a blank was read, and run has closed the
\* socket and returned with the worker of the connection still running.
C13_Witness ==
  /\ Len(said) = 2
  /\ rstrip(said[1]) = <<"license">>
  /\ said[2] = <<"exit", " ", "\n">>
  /\ server_socket = "closed"
  /\ returned
  /\ Len(client_threads) = 1
  /\ \E c \in Conns : wk[c] = "polling" /\ active[c]

\* Packets connection c sends in the step.
NewPackets(c) == Len(out'[c]) - Len(out[c])

\* C14: a BLOCKCHK, DELTA or PATCH request is read by an idle loop
\* (Received); the step either fails it or has decoded it (path under the
\* root, payload well-formed, file open) and sends nothing; no step before
\* the last one sends a packet; the last step sends exactly one packet if the
\* connection is open, the response of _process (the request has been
\* executed: Responded) or else the failure status of the loop (Failed).  So
\* on an open connection the responses sent are as many as the requests
\* whose handling is over.
C14_OneResponsePerRequest ==
  [][ \A c \in Conns :
        /\ active'[c]
             => Len(out'[c]) = nread'[c] - (IF pc'[c] = "idle" THEN 0 ELSE 1)
        /\ pc'[c] # "idle" => NewPackets(c) = 0
        /\ (Reads(c) /\ Head(inq[c]).t \in Custom)
             => /\ pc[c] = "idle"
                /\ IF pc'[c] = "idle"
                   THEN /\ err'[c] # "none"
                        /\ SendsStatus(c, Head(inq[c]).id, SFTP_FAILURE)
                   ELSE /\ ~LeavesRoot(Head(inq[c]).msg.path)
                        /\ Head(inq[c]).t # CMD_BLOCKCHK
                             => json_ok(Head(inq[c]).msg.payload)
                        /\ hnd'[c] # 0
        /\ (pc[c] # "idle" /\ pc'[c] = "idle")
             => /\ cur[c].t \in Custom
                /\ active[c] => NewPackets(c) = 1
                /\ ~active[c] => NewPackets(c) = 0
                /\ err'[c] = "none" => pc[c] \in {"read", "patched"}
                /\ active[c] =>
                     ( (err'[c] = "none")
                         <=> out'[c][Len(out'[c])].by = "_process" )
                /\ active[c] =>
                     ( (err'[c] # "none")
                         <=> out'[c][Len(out'[c])].by = "start_subsystem" ) ]_vars

\* C14 happens: an open connection has read a PATCH and a BLOCKCHK; the PATCH
\* failed while the temporary file was written and the BLOCKCHK was answered,
\* one packet each.
C14_Witness ==
  \E c \in Conns :
    /\ active[c]
    /\ pc[c] = "idle"
    /\ nread[c] = 2
    /\ Len(out[c]) = 2
    /\ out[c][1].by = "start_subsystem"
    /\ out[c][2].by = "_process"
    /\ out[c][2].type = CMD_BLOCKCHK
    /\ cur[c].t = CMD_BLOCKCHK
    /\ passed[c] = <<>>
    /\ \E d \in Conns : d # c /\ err[d] = "none" /\ nread[d] = 0

\* The step is one of connection c handling a BLOCKCHK or a DELTA request.
ReadOnlyStep(c) ==
  \/ Reads(c) /\ Head(inq[c]).t \in {CMD_BLOCKCHK, CMD_DELTA}
  \/ pc[c] = "read" /\ pc'[c] = "idle"

\* C15: a step that handles a BLOCKCHK or a DELTA request leaves every path
\* with the file and the content it had and makes no temporary file; a step
\* that changes what a path shows is the rename that ends a PATCH request,
\* and the path is the one that request names.
C15_OnlyPatchChangesItsFile ==
  [][ /\ \A c \in Conns :
           ReadOnlyStep(c)
           => /\ dir' = dir
              /\ Visible' = Visible
              /\ tmp' = tmp
              /\ \A l \in Locs : dir[l] # 0 => data'[dir[l]] = data[dir[l]]
      /\ (dir' # dir \/ Visible' # Visible)
           => \E c \in Conns :
                /\ cur[c].t = CMD_PATCH
                /\ pc[c] = "patched"
                /\ pc'[c] = "idle"
                /\ \A l \in Locs :
                     (dir'[l] # dir[l] \/ Visible'[l] # Visible[l])
                     => l = get_path(cur[c].msg.path).loc ]_vars

\* C15 happens: one connection has had a BLOCKCHK and a DELTA of the file a
\* answered and a is as it was, b still missing; then the other connection
\* patched a, and only a changed.
C15_Witness ==
  \E c, d \in Conns :
    /\ nread[c] = 1
    /\ cur[c].t = CMD_DELTA
    /\ Len(out[c]) = 1
    /\ out[c][1].type = CMD_DELTA
    /\ cur[d].t = CMD_PATCH
    /\ pc[d] = "idle"
    /\ Len(out[d]) = 1
    /\ out[d][1].status = SFTP_OK
    /\ ContentAt(<<"a">>) \notin InitContents
    /\ dir[<<"b">>] = 0

\* What a connection keeps for itself: its transport, its queue, the state
\* of its handler, its packets and its Server object.
Own(c) ==
  <<active[c], serving[c], inq[c], pc[c], cur[c], hnd[c], tmp[c], todo[c],
    out[c], err[c], passed[c], nread[c], server[c], auth[c], wk[c]>>

\* The step is one of the request handler of connection c.
HandlerStep(c) ==
  \/ Reads(c)
  \/ pc[c] # "idle" /\ (pc'[c] # pc[c] \/ todo'[c] # todo[c])

\* C16: the Server object of a connection, with its root, is set once, by
\* the worker before any request is read, to the root run was given, and no
\* later step changes it; an idle handler holds no file, no temporary file and
\* no pending operation; whether a request is refused on reading depends on
\* the request and the files alone; and a step of the handler of one
\* connection changes, besides the files, only what that connection keeps
\* for itself: not another connection's state, not the configuration.
C16_FixedRootNoSharedState ==
  [][ \A c \in Conns :
        /\ server[c] # NoServer => server'[c] = server[c]
        /\ server'[c] # server[c]
             => /\ wk[c] = "started"
                /\ nread[c] = 0
                /\ server'[c].root = conf.rootpath
        /\ serving'[c] => server'[c].root = conf.rootpath
        /\ pc'[c] = "idle" => (hnd'[c] = 0 /\ tmp'[c] = 0 /\ todo'[c] = <<>>)
        /\ (Reads(c) /\ Head(inq[c]).t \in Custom)
             => ((pc'[c] = "idle") <=> Erroneous(Head(inq[c])))
        /\ HandlerStep(c)
             => /\ \A d \in Conns \ {c} : Own(d)' = Own(d)
                /\ server'[c] = server[c]
                /\ <<conf, files, bs, running, server_socket, input_ready,
                      returned, client_threads, pending, said>>'
                     = <<conf, files, bs, running, server_socket, input_ready,
                         returned, client_threads, pending, said>> ]_vars

\* C16 happens: both connections got the configured root from their workers
\* and each has handled a request, one a PATCH that changed the file a, the
\* other a BLOCKCHK, and both handlers are idle with nothing open.
C16_Witness ==
  /\ \A c \in Conns :
       /\ server[c].root = RootPath
       /\ nread[c] = 1
       /\ pc[c] = "idle"
       /\ hnd[c] = 0
       /\ Len(out[c]) = 1
  /\ cur[1].t = CMD_PATCH
  /\ out[1][1].status = SFTP_OK
  /\ cur[2].t = CMD_BLOCKCHK
  /\ ContentAt(<<"a">>) \notin InitContents

\* Threads run has made for connection c.
ThreadsOf(c) == {k \in 1 .. Len(client_threads) : client_threads[k].conn = c}

\* The step is the main loop serving the listening socket.
ServesSocket ==
  /\ input_ready # <<>>
  /\ Head(input_ready) = "server_socket"
  /\ input_ready' = Tail(input_ready)

\* C17: a connection has a thread exactly when the main loop has accepted
\* it, and then one; the thread is for SFTPServer.run_server with that
\* connection and the host key, user key and root run was given, and the
\* worker makes its Server object from them.  Whenever the main loop serves
\* the listening socket it accepts the connection waiting longest, makes and
\* starts its thread and leaves the other workers alone.
C17_OneWorkerPerConnection ==
  [][ /\ \A c \in Conns :
           /\ Cardinality(ThreadsOf(c)') = IF wk'[c] = "none" THEN 0 ELSE 1
           /\ \A k \in ThreadsOf(c)' :
                client_threads'[k] =
                  [target |-> "SFTPServer.run_server", conn |-> c,
                   addr |-> <<"peer", c>>, hostkey |-> HostKeyPath,
                   userkey |-> UserKeyPath, root |-> RootPath]
           /\ wk'[c] \in {"polling", "closing", "done"}
                => server'[c] = [root |-> RootPath, userkey |-> UserKeyPath]
           /\ (wk[c] = "none" /\ wk'[c] # "none")
                => (ServesSocket /\ c = Head(pending) /\ wk'[c] = "started")
      /\ ServesSocket
           => /\ Accepts
              /\ client_threads'[Len(client_threads')].conn = Head(pending)
              /\ SubSeq(client_threads', 1, Len(client_threads))
                   = client_threads
              /\ pending' = Tail(pending)
              /\ \A c \in Conns \ {Head(pending)} : wk'[c] = wk[c]
              /\ active' = active
              /\ serving' = serving ]_vars

\* C17 happens: the second connection has just been accepted and its thread
\* started, while the worker of the first is in its loop, its transport
\* active and a PATCH of its client being written.
C17_Witness ==
  /\ Len(client_threads) = 2
  /\ client_threads[1].conn = 1
  /\ client_threads[2].conn = 2
  /\ wk[2] = "started"
  /\ wk[1] = "polling"
  /\ active[1]
  /\ pc[1] = "write"
  /\ running

\* C18: the worker of a connection reaches transport.close() only with the
\* transport inactive, and the transport of a worker that has left its loop
\* stays inactive; a transport becomes inactive on its own, with the worker
\* in its loop, never by the worker; and a worker whose transport is
\* inactive leaves the loop, closes the transport and ends.
C18_WorkerClosesInactiveTransport ==
  /\ [][ \A c \in Conns :
           /\ (wk[c] = "closing" /\ wk'[c] = "done") => ~active[c]
           /\ wk'[c] \in {"closing", "done"} => ~active'[c]
           /\ (active[c] /\ ~active'[c])
                => (wk[c] = "polling" /\ wk'[c] = "polling") ]_vars
  /\ \A c \in Conns : (wk[c] = "polling" /\ ~active[c]) ~> (wk[c] = "done")

\* C18 happens: a worker served a request of its client, the transport went
\* inactive and the worker closed it and ended, while the other worker is
\* still in its loop with its transport active.
C18_Witness ==
  \E c, d \in Conns :
    /\ wk[c] = "done"
    /\ ~active[c]
    /\ nread[c] = 1
    /\ out[c] # <<>>
    /\ wk[d] = "polling"
    /\ active[d]

\* The transports, request loops, handlers and workers of the connections,
\* and the files.
Sessions ==
  <<active, serving, inq, pc, cur, hnd, tmp, todo, out, err, passed, nread,
    wk, server, auth, client_threads, dir, data>>

\* C19: the step that reads 'exit' and the step that closes the listening
\* socket and returns from run change nothing of the connections accepted,
\* their workers, their handlers or the files, and the return does not wait
\* for a worker; after the return a transport still becomes inactive only on
\* its own, with its worker in its loop, and the handler of a connection can
\* take its next step: go on with the PATCH it is in, or read the frame that
\* waits.
C19_ShutdownLeavesWorkersRunning ==
  [][ /\ (running /\ ~running') => Sessions' = Sessions
      /\ (~returned /\ returned')
           => /\ server_socket = "listening"
              /\ server_socket' = "closed"
              /\ Sessions' = Sessions
      /\ returned
           => \A c \in Conns :
                /\ (active[c] /\ ~active'[c])
                     => (wk[c] = "polling" /\ wk'[c] = "polling")
                /\ pc[c] # "idle" => ENABLED Handle(c)
                /\ (active[c] /\ serving[c] /\ inq[c] # <<>>)
                     => ENABLED Handle(c) ]_vars

\* C19 happens: run has returned and the socket is closed, while a worker
\* accepted before is in its loop, its transport active, a PATCH being
\* written and a further frame waiting.
C19_Witness ==
  /\ returned
  /\ server_socket = "closed"
  /\ \E c \in Conns :
       /\ wk[c] = "polling"
       /\ active[c]
       /\ pc[c] = "write"
       /\ cur[c].t = CMD_PATCH
       /\ inq[c] # <<>>
====
